---- MODULE Spec2Model ----
(***************************************************************************)
(* A model of thai-baht-textizer (package thbtextizer, v1.2.0): the        *)
(* conversion of a decimal amount to Thai baht text, its rounding of the   *)
(* satang, and the package-level / Converter entry points that share the   *)
(* globals EnableWarningLogs and AllowOverflow.                            *)
(*                                                                         *)
(* Go strings are TLA+ strings.  TLA+ string literals are ASCII, so every  *)
(* Thai lexeme is written as one capitalised romanised word; a lexeme      *)
(* starts at each capital letter, so concatenations decode uniquely:       *)
(*   Nueng Song Sam Si Ha Hok Chet Paet Kao  = the digit words 1..9        *)
(*   Sip Roi Phan Muen Saen Lan              = the unit words 10..10^6     *)
(*   Et = the special ones word, Yi = the special twenty word,             *)
(*   Baht, Thuan ("only"), Satang, Sun (zero).                             *)
(***************************************************************************)
EXTENDS Integers, Sequences, FiniteSets

VARIABLES EnableWarningLogs, AllowOverflow, setAllowOverflow, sched, pc, call, frame, ret,
          earlier, found, converter

vars ==
  <<EnableWarningLogs, AllowOverflow, setAllowOverflow, sched, pc, call, frame, ret, earlier,
    found, converter>>

(***************************************************************************)
(* Strings                                                                 *)
(***************************************************************************)

\* s[i] as a one-character string (1-based)
CharAt(s, i) == SubSeq(s, i, i)

\* s[i:] of Go with 1-based i
From(s, i) == SubSeq(s, i, Len(s))

DigitChars == {"0", "1", "2", "3", "4", "5", "6", "7", "8", "9"}

\* the value of a digit character
DigitVal(c) ==
  CASE c = "0" -> 0 [] c = "1" -> 1 [] c = "2" -> 2 [] c = "3" -> 3 [] c = "4" -> 4
    [] c = "5" -> 5 [] c = "6" -> 6 [] c = "7" -> 7 [] c = "8" -> 8 [] c = "9" -> 9

\* the character of a digit 0..9
DigitChar(d) ==
  CASE d = 0 -> "0" [] d = 1 -> "1" [] d = 2 -> "2" [] d = 3 -> "3" [] d = 4 -> "4"
    [] d = 5 -> "5" [] d = 6 -> "6" [] d = 7 -> "7" [] d = 8 -> "8" [] d = 9 -> "9"

\* the byte of a character the sanitiser lets through, for Go's string comparison
ByteOf(c) ==
  CASE c = "+" -> 43 [] c = "," -> 44 [] c = "-" -> 45 [] c = "." -> 46
    [] OTHER -> 48 + DigitVal(c)

RECURSIVE AllDigits(_)
AllDigits(s) == s = "" \/ (CharAt(s, 1) \in DigitChars /\ AllDigits(From(s, 2)))

RECURSIVE ReplaceAll(_, _)
\* strings.ReplaceAll(s, c, "") for a one-character c
ReplaceAll(s, c) ==
  IF s = "" THEN ""
  ELSE (IF CharAt(s, 1) = c THEN "" ELSE CharAt(s, 1)) \o ReplaceAll(From(s, 2), c)

RECURSIVE Count(_, _)
\* strings.Count(s, c) for a one-character c
Count(s, c) ==
  IF s = "" THEN 0 ELSE (IF CharAt(s, 1) = c THEN 1 ELSE 0) + Count(From(s, 2), c)

RECURSIVE TrimLeft(_, _)
\* strings.TrimLeft(s, cutset) for a set of characters
TrimLeft(s, cutset) ==
  IF s # "" /\ CharAt(s, 1) \in cutset THEN TrimLeft(From(s, 2), cutset) ELSE s

RECURSIVE TrimRight(_, _)
TrimRight(s, cutset) ==
  IF s # "" /\ CharAt(s, Len(s)) \in cutset
  THEN TrimRight(SubSeq(s, 1, Len(s) - 1), cutset) ELSE s

WhiteSpace == {" ", "\t"}

\* strings.TrimSpace
TrimSpace(s) == TrimRight(TrimLeft(s, WhiteSpace), WhiteSpace)

HasPrefix(s, c) == s # "" /\ CharAt(s, 1) = c
HasSuffix(s, c) == s # "" /\ CharAt(s, Len(s)) = c

RECURSIVE IndexOf(_, _, _)
\* the first position >= i of character c in s, 0 when there is none
IndexOf(s, c, i) ==
  IF i > Len(s) THEN 0 ELSE IF CharAt(s, i) = c THEN i ELSE IndexOf(s, c, i + 1)

RECURSIVE Split(_, _)
\* strings.Split(s, c) for a one-character separator
Split(s, c) ==
  LET k == IndexOf(s, c, 1)
  IN IF k = 0 THEN <<s>> ELSE <<SubSeq(s, 1, k - 1)>> \o Split(From(s, k + 1), c)

RECURSIVE StringLess(_, _)
\* Go's a < b on strings (bytewise)
StringLess(a, b) ==
  IF b = "" THEN FALSE
  ELSE IF a = "" THEN TRUE
  ELSE IF CharAt(a, 1) # CharAt(b, 1) THEN ByteOf(CharAt(a, 1)) < ByteOf(CharAt(b, 1))
  ELSE StringLess(From(a, 2), From(b, 2))

RECURSIVE Repeat(_, _)
Repeat(s, n) == IF n <= 0 THEN "" ELSE s \o Repeat(s, n - 1)

(***************************************************************************)
(* Integers.  Go's int is 64 bits wide; a value is kept as a sign and its  *)
(* decimal magnitude (no leading zeros, "0" for zero), so that the whole   *)
(* range of int64 and its wrap-around are represented.                     *)
(***************************************************************************)

\* math.MaxInt64 and the magnitude of math.MinInt64
MaxInt64 == "9223372036854775807"
MinInt64Mag == "9223372036854775808"

\* a digit string without its leading zeros, "0" when nothing is left
Canon(s) == LET t == TrimLeft(s, {"0"}) IN IF t = "" THEN "0" ELSE t

\* a < b for two magnitudes
DecLess(a, b) == Len(a) < Len(b) \/ (Len(a) = Len(b) /\ StringLess(a, b))

RECURSIVE DecInc(_)
\* magnitude + 1
DecInc(s) ==
  IF s = "" THEN "1"
  ELSE LET d == DigitVal(CharAt(s, Len(s)))
           init == SubSeq(s, 1, Len(s) - 1)
       IN IF d = 9 THEN DecInc(init) \o "0" ELSE init \o DigitChar(d + 1)

RECURSIVE DecDecRaw(_)
DecDecRaw(s) ==
  LET d == DigitVal(CharAt(s, Len(s)))
      init == SubSeq(s, 1, Len(s) - 1)
  IN IF d = 0 THEN DecDecRaw(init) \o "9" ELSE init \o DigitChar(d - 1)

\* magnitude - 1, for a magnitude of at least 1
DecDec(s) == Canon(DecDecRaw(s))

\* strconv.Atoi: an optional sign, then decimal digits only; a syntax error gives 0,
\* a value outside int64 gives the nearest bound, both with err
Atoi(s) ==
  LET signed == s # "" /\ CharAt(s, 1) \in {"+", "-"}
      body == IF signed THEN From(s, 2) ELSE s
      neg == signed /\ CharAt(s, 1) = "-"
      mag == Canon(body)
  IN IF body = "" \/ ~AllDigits(body)
     THEN [err |-> TRUE, neg |-> FALSE, mag |-> "0"]
     ELSE IF neg /\ DecLess(MinInt64Mag, mag)
     THEN [err |-> TRUE, neg |-> TRUE, mag |-> MinInt64Mag]
     ELSE IF ~neg /\ DecLess(MaxInt64, mag)
     THEN [err |-> TRUE, neg |-> FALSE, mag |-> MaxInt64]
     ELSE [err |-> FALSE, neg |-> neg /\ mag # "0", mag |-> mag]

\* integerNum + 1 on int: two's complement, math.MaxInt64 + 1 = math.MinInt64
AddOne(n) ==
  IF n.neg
  THEN LET m == DecDec(n.mag) IN [err |-> FALSE, neg |-> m # "0", mag |-> m]
  ELSE IF n.mag = MaxInt64
  THEN [err |-> FALSE, neg |-> TRUE, mag |-> MinInt64Mag]
  ELSE [err |-> FALSE, neg |-> FALSE, mag |-> DecInc(n.mag)]

\* strconv.Itoa
Itoa(n) == (IF n.neg THEN "-" ELSE "") \o n.mag

RECURSIVE MagValue(_)
\* the number a short magnitude denotes
MagValue(s) ==
  IF s = "" THEN 0
  ELSE MagValue(SubSeq(s, 1, Len(s) - 1)) * 10 + DigitVal(CharAt(s, Len(s)))

\* v, _ := strconv.Atoi(s) for the strings of at most two characters the rounding reads
AtoiValue(s) ==
  LET n == Atoi(s) IN IF n.neg THEN 0 - MagValue(n.mag) ELSE MagValue(n.mag)

RECURSIVE NatToDec(_)
NatToDec(v) == IF v < 10 THEN DigitChar(v) ELSE NatToDec(v \div 10) \o DigitChar(v % 10)

\* fmt.Sprintf("%d", v)
SprintfD(v) == IF v < 0 THEN "-" \o NatToDec(0 - v) ELSE NatToDec(v)

\* a formatting without the zero padding
Sprintf02dUnpadded(v) == SprintfD(v)

\* fmt.Sprintf("%02d", v): zero-padded to width 2, the sign counting in the width
Sprintf02d(v) == IF 0 <= v /\ v < 10 THEN "0" \o NatToDec(v) ELSE SprintfD(v)

Max(a, b) == IF a > b THEN a ELSE b

(***************************************************************************)
(* Constants of the package                                                *)
(***************************************************************************)

RoundHalf == 0
RoundDown == 1
RoundUp == 2

Modes == {RoundHalf, RoundDown, RoundUp}

MaxSupportedValue == "9223372036854775807"

ErrNil == "nil"
ErrUnsupportedType == "ErrorCodeUnsupportedType"
ErrExceedsMaxValue == "ErrorCodeExceedsMaxValue"
ErrInvalidInput == "ErrorCodeInvalidInput"

\* digitNames[d]; a missing key of a Go map reads as ""
digitNames(d) ==
  CASE d = 1 -> "Nueng" [] d = 2 -> "Song" [] d = 3 -> "Sam" [] d = 4 -> "Si"
    [] d = 5 -> "Ha" [] d = 6 -> "Hok" [] d = 7 -> "Chet" [] d = 8 -> "Paet"
    [] d = 9 -> "Kao" [] OTHER -> ""

\* unitNames[i]
unitNames(i) ==
  CASE i = 0 -> "" [] i = 1 -> "Sip" [] i = 2 -> "Roi" [] i = 3 -> "Phan"
    [] i = 4 -> "Muen" [] i = 5 -> "Saen" [] i = 6 -> "Lan" [] OTHER -> ""

Lan == "Lan"
Et == "Et"
Yi == "Yi"
Baht == "Baht"
Thuan == "Thuan"
Satang == "Satang"
Sun == "Sun"

(***************************************************************************)
(* Input handling                                                          *)
(***************************************************************************)

\* convertToString: an amount is a typed value; a string passes through, an integer is
\* printed with %d, any other type here is unsupported
convertToString(amount) ==
  IF amount.type = "string" THEN [s |-> amount.v, err |-> ErrNil]
  ELSE IF amount.type = "int" THEN [s |-> SprintfD(amount.n), err |-> ErrNil]
  ELSE [s |-> "", err |-> ErrUnsupportedType]

\* the characters sanitizeInput lets through
AllowedChars == DigitChars \cup {".", ",", "-", "+"}

\* a sanitiser that leaves the underscores in
sanitizeInputKeepsUnderscores(input0) ==
  LET trimmed == TrimSpace(input0)
      input == ReplaceAll(ReplaceAll(trimmed, " "), "\t")
      unsigned == IF HasPrefix(input, "-") \/ HasPrefix(input, "+") THEN From(input, 2) ELSE input
      dotted == IF HasPrefix(unsigned, ".") THEN "0" \o unsigned ELSE unsigned
  IN IF trimmed = "" THEN [s |-> "", err |-> ErrInvalidInput]
     ELSE IF \E i \in 1..Len(input) : CharAt(input, i) \notin AllowedChars
     THEN [s |-> "", err |-> ErrInvalidInput]
     ELSE IF Count(unsigned, ".") > 1 THEN [s |-> "", err |-> ErrInvalidInput]
     ELSE [s |-> IF HasSuffix(dotted, ".") THEN dotted \o "0" ELSE dotted, err |-> ErrNil]

\* a sanitiser that leaves a leading sign in
sanitizeInputKeepsSign(input0) ==
  LET trimmed == TrimSpace(input0)
      input == ReplaceAll(ReplaceAll(ReplaceAll(trimmed, " "), "_"), "\t")
      dotted == IF HasPrefix(input, ".") THEN "0" \o input ELSE input
  IN IF trimmed = "" THEN [s |-> "", err |-> ErrInvalidInput]
     ELSE IF \E i \in 1..Len(input) : CharAt(input, i) \notin AllowedChars
     THEN [s |-> "", err |-> ErrInvalidInput]
     ELSE IF Count(input, ".") > 1 THEN [s |-> "", err |-> ErrInvalidInput]
     ELSE [s |-> IF HasSuffix(dotted, ".") THEN dotted \o "0" ELSE dotted, err |-> ErrNil]

sanitizeInput(input0) ==
  LET trimmed == TrimSpace(input0)
      input == ReplaceAll(ReplaceAll(ReplaceAll(trimmed, " "), "_"), "\t")
      unsigned == IF HasPrefix(input, "-") \/ HasPrefix(input, "+") THEN From(input, 2) ELSE input
      dotted == IF HasPrefix(unsigned, ".") THEN "0" \o unsigned ELSE unsigned
  IN IF trimmed = "" THEN [s |-> "", err |-> ErrInvalidInput]
     ELSE IF \E i \in 1..Len(input) : CharAt(input, i) \notin AllowedChars
     THEN [s |-> "", err |-> ErrInvalidInput]
     ELSE IF Count(unsigned, ".") > 1 THEN [s |-> "", err |-> ErrInvalidInput]
     ELSE [s |-> IF HasSuffix(dotted, ".") THEN dotted \o "0" ELSE dotted, err |-> ErrNil]

isValidNumber(str) == str # "" /\ AllDigits(str)

\* a bound check that counts the leading zeros among the digits
validateMaxValueCountsZeros(amountStr) ==
  LET parts == Split(amountStr, ".")
      integerPart == parts[1]
  IN IF Len(integerPart) > Len(MaxSupportedValue) THEN ErrExceedsMaxValue
     ELSE IF Len(integerPart) = Len(MaxSupportedValue)
     THEN IF ~AllDigits(integerPart)
          THEN IF StringLess(MaxSupportedValue, integerPart) THEN ErrExceedsMaxValue ELSE ErrNil
          ELSE IF DecLess(MaxSupportedValue, integerPart) THEN ErrExceedsMaxValue ELSE ErrNil
     ELSE ErrNil

validateMaxValue(amountStr) ==
  LET parts == Split(amountStr, ".")
      trimmed == TrimLeft(parts[1], {"0"})
      integerPart == IF trimmed = "" THEN "0" ELSE trimmed
  IN IF Len(integerPart) > Len(MaxSupportedValue) THEN ErrExceedsMaxValue
     ELSE IF Len(integerPart) = Len(MaxSupportedValue)
     THEN IF ~AllDigits(integerPart)
          \* strconv.ParseUint fails: the strings are compared
          THEN IF StringLess(MaxSupportedValue, integerPart) THEN ErrExceedsMaxValue ELSE ErrNil
          ELSE IF DecLess(MaxSupportedValue, integerPart) THEN ErrExceedsMaxValue ELSE ErrNil
     ELSE ErrNil

(***************************************************************************)
(* Rounding of the satang.  The result names the satang string, the        *)
(* overflow flag, and whether the clamp of 99 reached the warning.         *)
(***************************************************************************)

Rounded(satang, overflow, clamp) == [satang |-> satang, overflow |-> overflow, clamp |-> clamp]

\* a short fraction returned as it is, a single digit without its zero
ShortFractionUnpadded(decimal) ==
  IF Len(decimal) = 0 THEN Rounded("00", FALSE, FALSE)
  ELSE Rounded(decimal, FALSE, FALSE)

\* a fraction of at most two digits is exact: "" is "00", "d" is "d0", "dd" verbatim
ShortFraction(decimal) ==
  IF Len(decimal) = 0 THEN Rounded("00", FALSE, FALSE)
  ELSE IF Len(decimal) = 1 THEN Rounded(decimal \o "0", FALSE, FALSE)
  ELSE Rounded(decimal, FALSE, FALSE)

\* a RoundHalf that rounds up only from 6
RoundsUpFromSix(roundingMode, thirdDigit) ==
  \/ roundingMode = RoundUp /\ thirdDigit > 0
  \/ roundingMode = RoundHalf /\ thirdDigit > 5

\* a RoundUp that rounds like RoundHalf
RoundsUpLikeHalf(roundingMode, thirdDigit) ==
  roundingMode \in {RoundUp, RoundHalf} /\ thirdDigit >= 5

\* whether the switch on roundingMode does value++
RoundsUp(roundingMode, thirdDigit) ==
  \/ roundingMode = RoundUp /\ thirdDigit > 0
  \/ roundingMode = RoundHalf /\ thirdDigit >= 5

\* a rounding that carries on every rounding up when overflow is allowed, whatever
\* the value reached
LongFractionCarriesEveryRoundUp(decimal, roundingMode, allowOverflow) ==
  LET first2Digits == SubSeq(decimal, 1, 2)
      thirdDigit == AtoiValue(CharAt(decimal, 3))
      originalValue == AtoiValue(first2Digits)
      bump == RoundsUp(roundingMode, thirdDigit)
      value == IF bump THEN originalValue + 1 ELSE originalValue
  IN IF roundingMode = RoundDown THEN Rounded(first2Digits, FALSE, FALSE)
     ELSE IF bump /\ allowOverflow THEN Rounded("00", TRUE, FALSE)
     ELSE IF bump /\ value >= 100
     THEN Rounded(Sprintf02d(99), FALSE, originalValue = 99)
     ELSE Rounded(Sprintf02d(value), FALSE, FALSE)

\* the rounding of a fraction of more than two digits
LongFraction(decimal, roundingMode, allowOverflow) ==
  LET first2Digits == SubSeq(decimal, 1, 2)
      thirdDigit == AtoiValue(CharAt(decimal, 3))
      originalValue == AtoiValue(first2Digits)
      bump == RoundsUp(roundingMode, thirdDigit)
      value == IF bump THEN originalValue + 1 ELSE originalValue
  IN IF roundingMode = RoundDown THEN Rounded(first2Digits, FALSE, FALSE)
     ELSE IF bump /\ value >= 100
     THEN IF allowOverflow THEN Rounded("00", TRUE, FALSE)
          ELSE Rounded(Sprintf02d(99), FALSE, originalValue = 99)
     ELSE Rounded(Sprintf02d(value), FALSE, FALSE)

\* a rounding that ignores the mode it is given and always rounds half up
RoundingIgnoresMode(decimal, roundingMode, allowOverflow) ==
  IF Len(decimal) <= 2 THEN ShortFraction(decimal)
  ELSE LongFraction(decimal, RoundHalf, allowOverflow)

\* formatDecimalPartWithRounding, with the value it reads from the global AllowOverflow
\* passed in; clamp says that the warning (if EnableWarningLogs) is due
formatDecimalPartWithRounding(decimal, roundingMode, allowOverflow) ==
  IF Len(decimal) <= 2 THEN ShortFraction(decimal)
  ELSE LongFraction(decimal, roundingMode, allowOverflow)

(***************************************************************************)
(* Thai text                                                               *)
(***************************************************************************)

\* parseDigits: the digits of a digits-only string, most significant first
parseDigits(numberStr) == [i \in 1..Len(numberStr) |-> AtoiValue(CharAt(numberStr, i))]

\* a conversion that writes the special ones word for every final 1, also for a group
\* of the single digit 1
EtForEveryFinalOne(digit, unitIndex, positionFromRight, totalDigits) ==
  LET digitName == digitNames(digit)
      unitName == unitNames(unitIndex)
  IN IF unitIndex = 0
     THEN IF digit = 1 /\ positionFromRight = 0 THEN Et \o unitName
          ELSE digitName \o unitName
     ELSE IF unitIndex = 1
     THEN IF digit = 1 THEN unitName
          ELSE IF digit = 2 THEN Yi \o unitName
          ELSE digitName \o unitName
     ELSE digitName \o unitName

convertDigitAtPosition(digit, unitIndex, positionFromRight, totalDigits) ==
  LET digitName == digitNames(digit)
      unitName == unitNames(unitIndex)
  IN IF unitIndex = 0
     THEN IF digit = 1 /\ totalDigits > 1 /\ positionFromRight = 0
          THEN Et \o unitName
          ELSE digitName \o unitName
     ELSE IF unitIndex = 1
     THEN IF digit = 1 THEN unitName
          ELSE IF digit = 2 THEN Yi \o unitName
          ELSE digitName \o unitName
     ELSE digitName \o unitName

RECURSIVE SixDigitLoop(_, _)
\* the loop of convertSixDigitGroup from the 0-based position on
SixDigitLoop(digits, position) ==
  IF position >= Len(digits) THEN ""
  ELSE LET digit == digits[position + 1]
           positionFromRight == Len(digits) - position - 1
           unitIndex == positionFromRight % 6
       IN (IF digit = 0 THEN ""
           ELSE convertDigitAtPosition(digit, unitIndex, positionFromRight, Len(digits)))
          \o SixDigitLoop(digits, position + 1)

convertSixDigitGroup(digits) == SixDigitLoop(digits, 0)

RECURSIVE CountLoop(_, _)
\* the loop of countNonZeroGroups from startPos down
CountLoop(digits, startPos) ==
  IF startPos <= 0 THEN 0
  ELSE LET endPos == Max(startPos - 6, 0)
           hasNonZero == \E i \in (endPos + 1)..startPos : digits[i] # 0
       IN (IF hasNonZero THEN 1 ELSE 0) + CountLoop(digits, startPos - 6)

countNonZeroGroups(digits) == CountLoop(digits, Len(digits))

\* a suffix that repeats Lan by the group's distance whatever the other groups are
GroupSuffixAlwaysRepeats(digits, groupsFromRight) == Repeat(Lan, groupsFromRight)

\* a suffix of one Lan whatever the other groups are
GroupSuffixAlwaysSingle(digits, groupsFromRight) == IF groupsFromRight > 0 THEN Lan ELSE ""

\* the suffix buildThaiText gives a non-empty group text
GroupSuffix(digits, groupsFromRight) ==
  IF countNonZeroGroups(digits) > 1
  THEN IF groupsFromRight > 0 THEN Lan ELSE ""
  ELSE Repeat(Lan, groupsFromRight)

RECURSIVE BuildLoop(_, _, _, _)
\* the loop of buildThaiText: groups of 6 from the right, each prepended to result
BuildLoop(digits, startPos, groupsFromRight, result) ==
  IF startPos <= 0 THEN result
  ELSE LET endPos == Max(startPos - 6, 0)
           groupText == convertSixDigitGroup(SubSeq(digits, endPos + 1, startPos))
       IN BuildLoop(digits, startPos - 6, groupsFromRight + 1,
                    IF groupText # ""
                    THEN groupText \o GroupSuffix(digits, groupsFromRight) \o result
                    ELSE result)

buildThaiText(digits) ==
  IF Len(digits) <= 6 THEN convertSixDigitGroup(digits)
  ELSE BuildLoop(digits, Len(digits), 0, "")

convertIntegerNumber(numberStr) ==
  IF ~isValidNumber(numberStr) THEN ""
  ELSE buildThaiText(parseDigits(numberStr))

\* a satang reading that says Nueng, not Et, for the final one of 11, 21, ..., 91
convertDecimalPartNuengForFinalOne(decimalStr) ==
  IF ~isValidNumber(decimalStr) THEN ""
  ELSE LET value == AtoiValue(decimalStr)
       IN IF value % 10 = 1 /\ value > 10
          THEN (IF value \div 10 = 1 THEN "" ELSE IF value \div 10 = 2 THEN "Yi"
                ELSE digitNames(value \div 10)) \o "SipNueng"
          ELSE IF value = 1 THEN "Nueng"
          ELSE convertIntegerNumber(decimalStr)

\* a fraction read like an integer of two digits, without the satang rules
convertDecimalPartLikeInteger(decimalStr) ==
  IF ~isValidNumber(decimalStr) THEN ""
  ELSE convertIntegerNumber(decimalStr)

convertDecimalPart(decimalStr) ==
  IF ~isValidNumber(decimalStr) THEN ""
  ELSE LET value == AtoiValue(decimalStr)
       IN IF value = 1 THEN "Nueng"
          ELSE IF value = 11 THEN "SipEt"
          ELSE IF value >= 12 /\ value <= 19 THEN "Sip" \o digitNames(value - 10)
          ELSE IF value >= 21 /\ value <= 99 /\ value % 10 = 1
          THEN IF value \div 10 = 2 THEN "YiSipEt" ELSE digitNames(value \div 10) \o "SipEt"
          ELSE convertIntegerNumber(decimalStr)

(***************************************************************************)
(* Bounds and inputs                                                       *)
(***************************************************************************)

\* the longest integer part enumerated digit by digit
MaxShortLen == 3
\* the most 6-digit groups that follow the leading digit of a long integer part
MaxGroups == 3
\* the most fraction digits after the third
MaxFracTail == 1
\* the most separators written into a number
MaxSeparators == 2

RECURSIVE StringsOf(_, _)
\* the concatenations of exactly n members of pool
StringsOf(pool, n) ==
  IF n = 0 THEN {""} ELSE {a \o b : a \in pool, b \in StringsOf(pool, n - 1)}

UpTo(pool, lo, hi) == UNION {StringsOf(pool, n) : n \in lo..hi}

ShortInts == UpTo({"0", "1", "2", "9"}, 1, MaxShortLen)

LongInts ==
  {lead \o groups : lead \in {"0", "1", "9"},
                    groups \in UpTo({"000000", "000001", "120000", "999999"}, 1, MaxGroups)}

\* the integer parts of 4 to 6 digits: one group, with 0, 1, 2 and another digit in
\* the tens and the ones, and 0, 1 and another digit at every higher position
GroupInts ==
  {high \o low : high \in UpTo({"0", "1", "7"}, 2, 4),
                 low \in StringsOf({"0", "1", "2", "7"}, 2)}

SpecialInts == {MaxSupportedValue, "9223372036854775808", "999999", "1234567"}

\* the integer parts around the maximum, with leading zeros
MaxValueInts ==
  {Repeat("0", k) \o v : k \in 0..MaxShortLen,
                         v \in {MaxSupportedValue, "9223372036854775808",
                                "9223372036854775806", "10000000000000000000", "1"}}

IntMany == ShortInts \cup LongInts \cup SpecialInts \cup MaxValueInts

IntFew == {"0", "100"}

FracTens == {"0", "1", "2", "4", "9"}
FracOnes == {"0", "1", "2", "5", "9"}
FracThird == {"0", "1", "4", "5", "9"}

FracMany ==
  {""} \cup FracTens \cup {t \o o : t \in FracTens, o \in FracOnes}
  \cup {t \o o \o d \o tail : t \in FracTens, o \in FracOnes, d \in FracThird,
                              tail \in UpTo({"9"}, 0, MaxFracTail)}

\* every satang value 00..99 as a fraction of two digits
SatangFractions == {t \o o : t \in DigitChars, o \in DigitChars}

\* the short strings of a digit, the decimal point, the signs, a letter and a space:
\* the empty string, blanks, several points, signs and letters at every position
SymbolStrings == UpTo({"1", ".", "-", "+", "a", " "}, 0, MaxShortLen)

Separators == {",", "_", " ", "\t"}

RECURSIVE Separated(_, _)
\* the strings made from s by writing n separators into it, at any positions
Separated(s, n) ==
  IF n = 0 THEN {s}
  ELSE {SubSeq(t, 1, k) \o c \o From(t, k + 1) :
          t \in Separated(s, n - 1), k \in 0..(Len(s) + n - 1), c \in Separators}

\* numbers written with separators: short ones with up to MaxSeparators separators
\* anywhere, and the grouped forms of long ones
FormattedStrings ==
  UNION {Separated(s, n) : s \in {"1.5", ".4", "2."}, n \in 0..MaxSeparators}
  \cup {"9,223,372,036,854,775,807", "9,223,372,036,854,775,808", "1_000_000.25",
        "  1,234.56  ", "\t987.65\t", ",100.995", "1 0 0.9 9 5", ".4_5 ", "123."}

\* plain numbers with a sign written before them
SignedStrings ==
  {sign \o s : sign \in {"-", "+"},
               s \in ShortInts \cup {"100.995", "0.45", "999999.999", MaxSupportedValue,
                                     "9223372036854775808", "1000000"}}

\* an amount: its Go type, and its value as a string (v) or as an integer (n)
String(s) == [type |-> "string", v |-> s, n |-> 0]

\* the amounts of the other types: integers, and a type Convert does not support
OtherAmounts ==
  {[type |-> "int", v |-> "", n |-> n] : n \in {0, 21, 0 - 5, 0 - 21, 5}}
  \cup {[type |-> "slice", v |-> "", n |-> 0]}

\* a Config value
Configs(roundings) ==
  [EnableWarningLogs : BOOLEAN, AllowOverflow : BOOLEAN, DefaultRounding : roundings]

\* the variadic roundingMode argument: no mode, or one
RoundingArgs == {<<>>} \cup {<<m>> : m \in Modes}

Args(amount, roundingMode) == [amount |-> amount, roundingMode |-> roundingMode]

\* the modes passed with a fraction that rounds up from 99: none, and RoundUp
CarryModes == {<<>>, <<RoundUp>>}

\* the arguments a single caller passes to the package-level Convert: every integer
\* part alone and with a fraction that rounds up from 99, and every fraction
ConvertArgs ==
  {Args(String(i), <<>>) : i \in IntMany \cup GroupInts}
  \cup {Args(String(i \o ".995"), r) : i \in IntMany, r \in CarryModes}
  \cup {Args(String(i \o "." \o f), r) : i \in IntFew, f \in FracMany, r \in RoundingArgs}
  \cup {Args(String("0." \o f), <<>>) : f \in SatangFractions}
  \cup {Args(String(s), <<>>) : s \in SymbolStrings}
  \cup {Args(String(s), <<>>) : s \in FormattedStrings}
  \cup {Args(String(s), <<>>) : s \in SignedStrings}
  \cup {Args(a, <<>>) : a \in OtherAmounts}

\* the arguments a single caller passes to Converter.Convert
ConverterArgs ==
  {Args(String(s), r) : s \in {"100.995", "0.994", "0.455", "7"}, r \in RoundingArgs}
  \cup {Args(String(s), <<>>) : s \in {"", "1a", "1..", "9223372036854775808"}}
  \cup {Args(a, <<>>) : a \in OtherAmounts}

\* the arguments of concurrent callers
ConcurrentArgs == {Args(String("100.995"), <<>>)}

Procs == {"g1", "g2"}

NoConfig == [EnableWarningLogs |-> TRUE, AllowOverflow |-> FALSE, DefaultRounding |-> RoundHalf]
NoCall == [kind |-> "none", config |-> NoConfig, amount |-> String(""), roundingMode |-> <<>>]
NoFrame ==
  [mode |-> RoundHalf, originalWarningLogs |-> TRUE, originalAllowOverflow |-> FALSE,
   parts |-> <<>>, integerPart |-> "", decimalPart |-> "", overflow |-> FALSE, bahtText |-> ""]
NoRet == [text |-> "", err |-> ErrNil, warned |-> FALSE]

\* integer amounts of one, two and three 6-digit groups for a caller who compares
\* the texts of two calls
TwiceInts == {"1", "1000000", "1000001", "1000000000000", "1000000000001"}

\* the arguments of a caller who calls again with the arguments of an earlier call
TwiceArgs ==
  {Args(String(s), r) : s \in {"100.995", "0.455", "7"}, r \in RoundingArgs}
  \cup {Args(String(s), <<>>) : s \in TwiceInts}

\* DefaultConfig()
DefaultConfig ==
  [EnableWarningLogs |-> TRUE, AllowOverflow |-> FALSE, DefaultRounding |-> RoundHalf]

\* the argument of NewConverter: a pointer to a Config of the caller's, or nil
ConfigArgs ==
  {[nil |-> FALSE, to |-> c] : c \in Configs(Modes)} \cup {[nil |-> TRUE, to |-> DefaultConfig]}

\* the arguments of the calls on a Converter that is kept
KeptArgs == {Args(String(s), r) : s \in {"100.995", "0.455"}, r \in RoundingArgs}

\* no Converter is kept: config is the Config its pointer leads to, made the value
\* that Config had at construction, shared whether the caller holds the pointer
NoConverter ==
  [built |-> FALSE, config |-> DefaultConfig, made |-> DefaultConfig, shared |-> FALSE]

\* no earlier call is remembered
NoEarlier ==
  [set |-> FALSE, amount |-> String(""), roundingMode |-> <<>>, text |-> "", err |-> ErrNil]

(***************************************************************************)
(* The program: the globals, and goroutines calling Convert                 *)
(***************************************************************************)

\* the values of the two package globals
Globals == [EnableWarningLogs |-> EnableWarningLogs, AllowOverflow |-> AllowOverflow]

InitWith(s) ==
  /\ EnableWarningLogs = TRUE
  /\ AllowOverflow = FALSE
  /\ setAllowOverflow = FALSE
  /\ sched = s
  /\ pc = [p \in Procs |-> "idle"]
  /\ call = [p \in Procs |-> NoCall]
  /\ frame = [p \in Procs |-> NoFrame]
  /\ ret = [p \in Procs |-> NoRet]
  /\ earlier = NoEarlier
  /\ found = Globals
  /\ converter = NoConverter

\* one goroutine makes the calls, one after the other
Init == InitWith("sequential")

\* two goroutines call concurrently
InitConc == InitWith("concurrent")

\* one goroutine makes the calls and remembers the result of an earlier one
InitTwice == InitWith("twice")

\* one goroutine constructs a Converter, keeps it and calls it
InitKept == InitWith("kept")

Quiet == \A q \in Procs : pc[q] = "idle"

\* who may start a call: the single caller when nothing runs, or any idle goroutine
MayCall(p) ==
  /\ pc[p] = "idle"
  /\ sched # "concurrent" => (p = "g1" /\ Quiet)

SetWarningLogs(enabled) ==
  /\ Quiet
  /\ EnableWarningLogs' = enabled
  /\ found' = [found EXCEPT !.EnableWarningLogs = enabled]
  /\ UNCHANGED <<AllowOverflow, setAllowOverflow, sched, converter, earlier, pc, call, frame, ret>>

SetAllowOverflow(enabled) ==
  /\ Quiet
  /\ AllowOverflow' = enabled
  /\ setAllowOverflow' = enabled
  /\ found' = [found EXCEPT !.AllowOverflow = enabled]
  /\ UNCHANGED <<EnableWarningLogs, sched, converter, earlier, pc, call, frame, ret>>

\* a mode selection that ignores the argument
ModeOfIgnoresArgument(default, roundingMode) == default

\* mode := default; if len(roundingMode) > 0 { mode = roundingMode[0] }
ModeOf(default, roundingMode) == IF Len(roundingMode) > 0 THEN roundingMode[1] ELSE default

\* the package-level Convert up to its call of convertWithMode
Convert(p) ==
  /\ MayCall(p)
  /\ \E a \in (CASE sched = "sequential" -> ConvertArgs
                  [] sched = "twice" -> TwiceArgs
                  [] OTHER -> ConcurrentArgs) :
       /\ call' = [call EXCEPT ![p] = [kind |-> "Convert", config |-> NoConfig,
                                      amount |-> a.amount, roundingMode |-> a.roundingMode]]
       /\ frame' = [frame EXCEPT ![p].mode = ModeOf(RoundHalf, a.roundingMode)]
  /\ pc' = [pc EXCEPT ![p] = "convertWithMode"]
  /\ found' = IF Quiet THEN Globals ELSE found
  /\ UNCHANGED <<EnableWarningLogs, AllowOverflow, setAllowOverflow, sched, converter,
                 earlier, ret>>

\* Converter.Convert on a Converter of the given Config, up to the reads of the globals
ConverterConvert(p) ==
  /\ MayCall(p)
  /\ \E a \in (CASE sched = "sequential" -> ConverterArgs
                  [] sched = "twice" -> TwiceArgs
                  [] OTHER -> ConcurrentArgs),
        config \in (IF sched = "sequential" THEN Configs(Modes) ELSE Configs({RoundHalf})) :
       /\ call' = [call EXCEPT ![p] = [kind |-> "Converter", config |-> config,
                                      amount |-> a.amount, roundingMode |-> a.roundingMode]]
       /\ frame' = [frame EXCEPT ![p].mode = ModeOf(config.DefaultRounding, a.roundingMode)]
  /\ pc' = [pc EXCEPT ![p] = "saveWarningLogs"]
  /\ found' = IF Quiet THEN Globals ELSE found
  /\ UNCHANGED <<EnableWarningLogs, AllowOverflow, setAllowOverflow, sched, converter,
                 earlier, ret>>

\* NewConverter(config): the Converter keeps the pointer it is given, or the pointer
\* to a fresh DefaultConfig() when it is given nil
NewConverter(config) ==
  /\ sched = "kept" /\ Quiet
  /\ converter' = IF config.nil
                   THEN [built |-> TRUE, config |-> DefaultConfig, made |-> DefaultConfig,
                         shared |-> FALSE]
                   ELSE [built |-> TRUE, config |-> config.to, made |-> config.to,
                         shared |-> TRUE]
  /\ UNCHANGED <<EnableWarningLogs, AllowOverflow, setAllowOverflow, sched, earlier, found,
                 pc, call, frame, ret>>

\* the caller assigns to the fields of the Config whose pointer it passed
ChangeConfig(config) ==
  /\ sched = "kept" /\ Quiet
  /\ converter.built /\ converter.shared
  /\ config # converter.config
  /\ converter' = [converter EXCEPT !.config = config]
  /\ UNCHANGED <<EnableWarningLogs, AllowOverflow, setAllowOverflow, sched, earlier, found,
                 pc, call, frame, ret>>

\* Converter.Convert on the Converter that is kept, up to the reads of the globals:
\* c.config is read through the pointer when the call is made
KeptConvert(p) ==
  /\ sched = "kept" /\ MayCall(p)
  /\ converter.built
  /\ \E a \in KeptArgs :
       /\ call' = [call EXCEPT ![p] = [kind |-> "Converter", config |-> converter.config,
                                      amount |-> a.amount, roundingMode |-> a.roundingMode]]
       /\ frame' = [frame EXCEPT
                      ![p].mode = ModeOf(converter.config.DefaultRounding, a.roundingMode)]
  /\ pc' = [pc EXCEPT ![p] = "saveWarningLogs"]
  /\ found' = IF Quiet THEN Globals ELSE found
  /\ UNCHANGED <<EnableWarningLogs, AllowOverflow, setAllowOverflow, sched, converter,
                 earlier, ret>>

\* originalWarningLogs := EnableWarningLogs
SaveWarningLogs(p) ==
  /\ pc[p] = "saveWarningLogs"
  /\ frame' = [frame EXCEPT ![p].originalWarningLogs = EnableWarningLogs]
  /\ pc' = [pc EXCEPT ![p] = "saveAllowOverflow"]
  /\ UNCHANGED <<EnableWarningLogs, AllowOverflow, setAllowOverflow, sched, converter,
                 earlier, found, call, ret>>

\* originalAllowOverflow := AllowOverflow
SaveAllowOverflow(p) ==
  /\ pc[p] = "saveAllowOverflow"
  /\ frame' = [frame EXCEPT ![p].originalAllowOverflow = AllowOverflow]
  /\ pc' = [pc EXCEPT ![p] = "useWarningLogs"]
  /\ UNCHANGED <<EnableWarningLogs, AllowOverflow, setAllowOverflow, sched, converter,
                 earlier, found, call, ret>>

\* EnableWarningLogs = c.config.EnableWarningLogs
UseWarningLogs(p) ==
  /\ pc[p] = "useWarningLogs"
  /\ EnableWarningLogs' = call[p].config.EnableWarningLogs
  /\ pc' = [pc EXCEPT ![p] = "useAllowOverflow"]
  /\ UNCHANGED <<AllowOverflow, setAllowOverflow, sched, converter,
                 earlier, found, call, frame, ret>>

\* AllowOverflow = c.config.AllowOverflow
UseAllowOverflow(p) ==
  /\ pc[p] = "useAllowOverflow"
  /\ AllowOverflow' = call[p].config.AllowOverflow
  /\ pc' = [pc EXCEPT ![p] = "convertWithMode"]
  /\ UNCHANGED <<EnableWarningLogs, setAllowOverflow, sched, converter,
                 earlier, found, call, frame, ret>>

\* a failure that still returns a text
FailureWithText(err) == [text |-> Sun \o Baht \o Thuan, err |-> err, warned |-> FALSE]

\* return "", err
Failure(err) == [text |-> "", err |-> err, warned |-> FALSE]

\* where convertWithMode returns to: the deferred restore of a Converter, or the caller
AfterCore(p) == IF call[p].kind = "Converter" THEN "restoreWarningLogs" ELSE "done"

\* convertWithMode up to the split of the amount: an error returns at once
Parse(p) ==
  /\ pc[p] = "convertWithMode"
  /\ LET str == convertToString(call[p].amount)
         san == sanitizeInput(str.s)
         amountStr == ReplaceAll(san.s, ",")
         parts == Split(amountStr, ".")
         err == IF str.err # ErrNil THEN str.err
                ELSE IF san.err # ErrNil THEN san.err
                ELSE validateMaxValue(amountStr)
     IN IF err # ErrNil
        THEN /\ ret' = [ret EXCEPT ![p] = Failure(err)]
             /\ pc' = [pc EXCEPT ![p] = AfterCore(p)]
             /\ UNCHANGED frame
        ELSE /\ frame' = [frame EXCEPT ![p].parts = parts, ![p].integerPart = parts[1]]
             /\ pc' = [pc EXCEPT ![p] = IF Len(parts) > 1 THEN "round" ELSE "assemble"]
             /\ UNCHANGED ret
  /\ UNCHANGED <<EnableWarningLogs, AllowOverflow, setAllowOverflow, sched, converter,
                 earlier, found, call>>

\* if overflow { integerNum, err := strconv.Atoi(integerPart); if err == nil { ... } }
Carry(integerPart, decimalPart, overflow) ==
  LET integerNum == Atoi(integerPart)
  IN IF overflow /\ ~integerNum.err
     THEN [integerPart |-> Itoa(AddOne(integerNum)), decimalPart |-> "00"]
     ELSE [integerPart |-> integerPart, decimalPart |-> decimalPart]

\* formatDecimalPartWithRounding(parts[1], mode), which reads AllowOverflow, and the
\* carry into the integer part; a clamp of 99 goes on to the warning
Round(p) ==
  /\ pc[p] = "round"
  /\ LET r == formatDecimalPartWithRounding(frame[p].parts[2], frame[p].mode, AllowOverflow)
         c == Carry(frame[p].integerPart, r.satang, r.overflow)
     IN /\ frame' = [frame EXCEPT ![p].decimalPart = c.decimalPart,
                                  ![p].integerPart = c.integerPart,
                                  ![p].overflow = r.overflow]
        /\ pc' = [pc EXCEPT ![p] = IF r.clamp THEN "warn" ELSE "assemble"]
  /\ UNCHANGED <<EnableWarningLogs, AllowOverflow, setAllowOverflow, sched, converter,
                 earlier, found, call, ret>>

\* a warning that is logged whatever EnableWarningLogs says
WarnWhateverTheSetting(p) ==
  /\ pc[p] = "warn"
  /\ ret' = [ret EXCEPT ![p].warned = TRUE]
  /\ pc' = [pc EXCEPT ![p] = "assemble"]
  /\ UNCHANGED <<EnableWarningLogs, AllowOverflow, setAllowOverflow, sched, converter,
                 earlier, found, call, frame>>

\* if originalValue == 99 && EnableWarningLogs { log.Printf(warningMsg, decimal) }
Warn(p) ==
  /\ pc[p] = "warn"
  /\ ret' = [ret EXCEPT ![p].warned = EnableWarningLogs]
  /\ pc' = [pc EXCEPT ![p] = "assemble"]
  /\ UNCHANGED <<EnableWarningLogs, AllowOverflow, setAllowOverflow, sched, converter,
                 earlier, found, call, frame>>

\* an assembly that writes "only" for a missing fraction alone, not for satang "00"
AssembledThuanOnlyWithoutFraction(integerPart, decimalPart) ==
  LET bahtText == convertIntegerNumber(integerPart)
      satangText == convertDecimalPart(decimalPart)
  IN (IF bahtText = "" THEN Sun ELSE bahtText) \o Baht
     \o (IF decimalPart = "" THEN Thuan
         ELSE (IF satangText = "" THEN Sun ELSE satangText) \o Satang)

\* an assembly that writes an empty integer text as it is, with no word for zero
AssembledWithoutSun(integerPart, decimalPart) ==
  LET bahtText == convertIntegerNumber(integerPart)
      satangText == convertDecimalPart(decimalPart)
  IN bahtText \o Baht
     \o (IF decimalPart = "" \/ decimalPart = "00" THEN Thuan
         ELSE (IF satangText = "" THEN Sun ELSE satangText) \o Satang)

\* the text convertWithMode builds from the integer part and the rounded satang
Assembled(integerPart, decimalPart) ==
  LET bahtText == convertIntegerNumber(integerPart)
      satangText == convertDecimalPart(decimalPart)
  IN (IF bahtText = "" THEN Sun ELSE bahtText) \o Baht
     \o (IF decimalPart = "" \/ decimalPart = "00" THEN Thuan
         ELSE (IF satangText = "" THEN Sun ELSE satangText) \o Satang)

Assemble(p) ==
  /\ pc[p] = "assemble"
  /\ frame' = [frame EXCEPT ![p].bahtText = convertIntegerNumber(frame[p].integerPart)]
  /\ ret' = [ret EXCEPT ![p].text = Assembled(frame[p].integerPart, frame[p].decimalPart)]
  /\ pc' = [pc EXCEPT ![p] = AfterCore(p)]
  /\ UNCHANGED <<EnableWarningLogs, AllowOverflow, setAllowOverflow, sched, converter,
                 earlier, found, call>>

\* convertWithMode run from start to end with the globals holding allowOverflow and
\* enableWarningLogs throughout: what a call returns, and whether it logs the warning
convertWithMode(amount, mode, allowOverflow, enableWarningLogs) ==
  LET str == convertToString(amount)
      san == sanitizeInput(str.s)
      amountStr == ReplaceAll(san.s, ",")
      parts == Split(amountStr, ".")
      err == IF str.err # ErrNil THEN str.err
             ELSE IF san.err # ErrNil THEN san.err
             ELSE validateMaxValue(amountStr)
      r == IF Len(parts) > 1
           THEN formatDecimalPartWithRounding(parts[2], mode, allowOverflow)
           ELSE Rounded("", FALSE, FALSE)
      c == Carry(parts[1], r.satang, r.overflow)
  IN IF err # ErrNil THEN Failure(err)
     ELSE [text |-> Assembled(c.integerPart, c.decimalPart), err |-> ErrNil,
           warned |-> r.clamp /\ enableWarningLogs]

\* deferred: EnableWarningLogs = originalWarningLogs
RestoreWarningLogs(p) ==
  /\ pc[p] = "restoreWarningLogs"
  /\ EnableWarningLogs' = frame[p].originalWarningLogs
  /\ pc' = [pc EXCEPT ![p] = "restoreAllowOverflow"]
  /\ UNCHANGED <<AllowOverflow, setAllowOverflow, sched, converter,
                 earlier, found, call, frame, ret>>

\* deferred: AllowOverflow = originalAllowOverflow
RestoreAllowOverflow(p) ==
  /\ pc[p] = "restoreAllowOverflow"
  /\ AllowOverflow' = frame[p].originalAllowOverflow
  /\ pc' = [pc EXCEPT ![p] = "done"]
  /\ UNCHANGED <<EnableWarningLogs, setAllowOverflow, sched, converter,
                 earlier, found, call, frame, ret>>

\* the caller has the result and is free to call again; the caller who calls twice
\* may remember what a package-level Convert was given and what it returned
Return(p) ==
  /\ pc[p] = "done"
  /\ pc' = [pc EXCEPT ![p] = "idle"]
  /\ call' = [call EXCEPT ![p] = NoCall]
  /\ frame' = [frame EXCEPT ![p] = NoFrame]
  /\ ret' = [ret EXCEPT ![p] = NoRet]
  /\ \/ UNCHANGED earlier
     \/ /\ sched = "twice" /\ call[p].kind = "Convert"
        /\ earlier' = [set |-> TRUE, amount |-> call[p].amount,
                       roundingMode |-> call[p].roundingMode,
                       text |-> ret[p].text, err |-> ret[p].err]
  /\ UNCHANGED <<EnableWarningLogs, AllowOverflow, setAllowOverflow, sched, converter, found>>

Next ==
  \/ \E b \in BOOLEAN : SetWarningLogs(b)
  \/ \E b \in BOOLEAN : SetAllowOverflow(b)
  \/ \E p \in Procs : Convert(p)
  \/ \E p \in Procs : ConverterConvert(p)
  \/ \E p \in Procs : SaveWarningLogs(p)
  \/ \E p \in Procs : SaveAllowOverflow(p)
  \/ \E p \in Procs : UseWarningLogs(p)
  \/ \E p \in Procs : UseAllowOverflow(p)
  \/ \E p \in Procs : Parse(p)
  \/ \E p \in Procs : Round(p)
  \/ \E p \in Procs : Warn(p)
  \/ \E p \in Procs : Assemble(p)
  \/ \E p \in Procs : RestoreWarningLogs(p)
  \/ \E p \in Procs : RestoreAllowOverflow(p)
  \/ \E p \in Procs : Return(p)

Spec == Init /\ [][Next]_vars

SpecConc == InitConc /\ [][Next]_vars

SpecTwice == InitTwice /\ [][Next]_vars

\* the program of a caller who constructs a Converter, keeps it and makes every
\* Converter.Convert call on it
NextKept ==
  \/ \E b \in BOOLEAN : SetWarningLogs(b)
  \/ \E b \in BOOLEAN : SetAllowOverflow(b)
  \/ \E config \in ConfigArgs : NewConverter(config)
  \/ \E config \in Configs(Modes) : ChangeConfig(config)
  \/ \E p \in Procs : Convert(p)
  \/ \E p \in Procs : KeptConvert(p)
  \/ \E p \in Procs : SaveWarningLogs(p)
  \/ \E p \in Procs : SaveAllowOverflow(p)
  \/ \E p \in Procs : UseWarningLogs(p)
  \/ \E p \in Procs : UseAllowOverflow(p)
  \/ \E p \in Procs : Parse(p)
  \/ \E p \in Procs : Round(p)
  \/ \E p \in Procs : Warn(p)
  \/ \E p \in Procs : Assemble(p)
  \/ \E p \in Procs : RestoreWarningLogs(p)
  \/ \E p \in Procs : RestoreAllowOverflow(p)
  \/ \E p \in Procs : Return(p)

SpecKept == InitKept /\ [][NextKept]_vars

(***************************************************************************)
(* Properties                                                              *)
(***************************************************************************)

\* a call that has returned a text
Returned(p) == pc[p] = "done" /\ ret[p].err = ErrNil

\* the integer part and the fraction of the amount as split, before any carry
InInteger(p) == frame[p].parts[1]
InFraction(p) == frame[p].parts[2]
HasFraction(p) == Len(frame[p].parts) > 1

\* a call whose amount is digits, or digits "." digits
DigitsOnly(p) ==
  /\ InInteger(p) # "" /\ AllDigits(InInteger(p))
  /\ HasFraction(p) => AllDigits(InFraction(p))

\* the overflow policy of a call made by a single caller: the Config's of a Converter,
\* the value last passed to SetAllowOverflow for the package-level Convert
Policy(p) ==
  IF call[p].kind = "Converter" THEN call[p].config.AllowOverflow ELSE setAllowOverflow

\* the leading two-digit value V and the third digit D of a fraction
LeadingValue(f) == 10 * DigitVal(CharAt(f, 1)) + DigitVal(CharAt(f, 2))
ThirdDigit(f) == DigitVal(CharAt(f, 3))

\* a value 0..99 as two characters
TwoDigits(v) == DigitChar(v \div 10) \o DigitChar(v % 10)

\* the call rounds satang 99 up to 100
RoundsPast99(p) ==
  /\ HasFraction(p) /\ Len(InFraction(p)) > 2
  /\ LeadingValue(InFraction(p)) = 99
  /\ \/ frame[p].mode = RoundHalf /\ ThirdDigit(InFraction(p)) >= 5
     \/ frame[p].mode = RoundUp /\ ThirdDigit(InFraction(p)) > 0

RECURSIVE Successor(_)
\* the decimal digits of n + 1 from the digits of n (no leading zeros), as a digit
\* array grows
Successor(digits) ==
  IF digits = <<>> THEN <<1>>
  ELSE IF digits[Len(digits)] < 9
  THEN [digits EXCEPT ![Len(digits)] = @ + 1]
  ELSE Successor(SubSeq(digits, 1, Len(digits) - 1)) \o <<0>>

\* what Convert writes for an integer part given as digits, with no fraction
WholeBahtText(digits) ==
  LET t == buildThaiText(digits) IN (IF t = "" THEN Sun ELSE t) \o Baht \o Thuan

\* C1: whenever the rounding carries, the text returned for integer part N is the text
\* of N + 1 with no fraction, for every accepted N up to 9223372036854775807
CarryIsIncrement ==
  \A p \in Procs :
    (Returned(p) /\ HasFraction(p) /\ DigitsOnly(p) /\ frame[p].overflow)
      => ret[p].text = WholeBahtText(Successor(parseDigits(Canon(InInteger(p)))))

\* below the top of int64 the carry is the increment: the failure is at the top alone
CarryIsIncrementBelowMax ==
  \A p \in Procs :
    (Returned(p) /\ HasFraction(p) /\ DigitsOnly(p) /\ frame[p].overflow
       /\ Canon(InInteger(p)) # MaxInt64)
      => ret[p].text = WholeBahtText(Successor(parseDigits(Canon(InInteger(p)))))

\* a carry out of 999999 has been returned
CarryGrowsDigits ==
  \E p \in Procs :
    Returned(p) /\ frame[p].overflow /\ InInteger(p) = "999999" /\ ret[p].text = "NuengLanBahtThuan"

\* C2: a Converter.Convert call returns, and logs, what its own Config and arguments
\* determine, whatever other calls run concurrently
ConverterIsolated ==
  \A p \in Procs :
    (pc[p] = "done" /\ call[p].kind = "Converter")
      => ret[p] = convertWithMode(call[p].amount, frame[p].mode,
                                  call[p].config.AllowOverflow,
                                  call[p].config.EnableWarningLogs)

\* C3: a package-level Convert call rounds with the value last passed to
\* SetAllowOverflow, whatever Converter calls run before, after or concurrently
PackageConvertUsesSetValue ==
  \A p \in Procs :
    (pc[p] = "done" /\ call[p].kind = "Convert")
      => \E w \in BOOLEAN :
           ret[p] = convertWithMode(call[p].amount, frame[p].mode, setAllowOverflow, w)

\* the integer part that convertIntegerNumber is given (after any carry)
OutInteger(p) == frame[p].integerPart

RECURSIVE GroupsOf(_)
\* the 6-digit groups of a digit string, the most significant (and possibly shorter)
\* first
GroupsOf(s) ==
  IF Len(s) <= 6 THEN <<s>>
  ELSE LET lead == IF Len(s) % 6 = 0 THEN 6 ELSE Len(s) % 6
       IN <<SubSeq(s, 1, lead)>> \o GroupsOf(From(s, lead + 1))

NonZeroGroup(g) == \E i \in 1..Len(g) : CharAt(g, i) # "0"

\* the positions of the non-zero groups
NonZeroGroups(gs) == {i \in 1..Len(gs) : NonZeroGroup(gs[i])}

GroupText(g) == convertSixDigitGroup(parseDigits(g))

RECURSIVE OneLanPerGroup(_)
\* each non-zero group's text, with one Lan unless the group is the last
OneLanPerGroup(gs) ==
  IF gs = <<>> THEN ""
  ELSE (IF NonZeroGroup(Head(gs))
        THEN GroupText(Head(gs)) \o (IF Len(gs) > 1 THEN Lan ELSE "")
        ELSE "")
       \o OneLanPerGroup(Tail(gs))

\* a returned call whose integer part has more than 6 digits
LongInteger(p) == Returned(p) /\ AllDigits(OutInteger(p)) /\ Len(OutInteger(p)) > 6

\* C4: an integer part of more than 6 digits with more than one non-zero 6-digit group
\* reads, most significant first, as each non-zero group's text followed by exactly
\* one Lan, except the rightmost group, which gets none; zero groups give nothing
SeveralGroupsOneLanEach ==
  \A p \in Procs :
    (LongInteger(p) /\ Cardinality(NonZeroGroups(GroupsOf(OutInteger(p)))) > 1)
      => frame[p].bahtText = OneLanPerGroup(GroupsOf(OutInteger(p)))

\* a 19-digit integer part with three non-zero groups and a zero group between them
SeveralGroupsReached ==
  \E p \in Procs :
    /\ LongInteger(p)
    /\ OutInteger(p) = "1000001000000120000"
    /\ frame[p].bahtText = "NuengLanEtLanNuengSaenSongMuen"

\* C5: an integer part of more than 6 digits whose only non-zero 6-digit group is at
\* distance g from the right reads as that group's text followed by g times Lan
SingleGroupRepeatsLan ==
  \A p \in Procs :
    LongInteger(p) =>
      LET gs == GroupsOf(OutInteger(p))
      IN \A i \in 1..Len(gs) :
           NonZeroGroups(gs) = {i}
             => frame[p].bahtText = GroupText(gs[i]) \o Repeat(Lan, Len(gs) - i)

\* ten to the eighteenth has been read with three Lan
TenToEighteenReached ==
  \E p \in Procs :
    /\ LongInteger(p)
    /\ OutInteger(p) = "1000000000000000000"
    /\ ret[p].text = "NuengLanLanLanBahtThuan"

\* C6: when a fraction of more than two digits rounds 99 satang up to 100, overflow
\* allowed gives the integer part plus one and "BahtThuan", overflow disallowed gives
\* the unchanged integer part and 99 satang
RoundPast99CarriesOrClamps ==
  \A p \in Procs :
    (Returned(p) /\ DigitsOnly(p) /\ RoundsPast99(p))
      => ret[p].text =
           IF Policy(p)
           THEN WholeBahtText(Successor(parseDigits(Canon(InInteger(p)))))
           ELSE (IF convertIntegerNumber(InInteger(p)) = "" THEN Sun
                 ELSE convertIntegerNumber(InInteger(p))) \o Baht \o "KaoSipKao" \o Satang

\* 100.995 has been clamped to 99 satang
ClampReached ==
  \E p \in Procs :
    /\ Returned(p) /\ RoundsPast99(p) /\ ~Policy(p)
    /\ ret[p].text = "NuengRoiBahtKaoSipKaoSatang"

\* a returned call with a digits-only fraction of more than two digits in the mode
LongFractionIn(p, mode) ==
  /\ Returned(p) /\ HasFraction(p) /\ DigitsOnly(p)
  /\ Len(InFraction(p)) > 2
  /\ frame[p].mode = mode

\* the satang and the carry of a call are those of value v (0..100) under its policy
SatangIs(p, v) ==
  IF v < 100 THEN frame[p].decimalPart = TwoDigits(v) /\ ~frame[p].overflow
  ELSE IF Policy(p) THEN frame[p].decimalPart = "00" /\ frame[p].overflow
  ELSE frame[p].decimalPart = "99" /\ ~frame[p].overflow

\* C7: in mode RoundHalf a fraction of more than two digits gives satang V when its
\* third digit is 0..4 and V + 1 when it is 5..9 (carry or clamp at V = 99 only);
\* the digits after the third change nothing
RoundHalfByThirdDigit ==
  \A p \in Procs :
    LongFractionIn(p, RoundHalf) =>
      LET V == LeadingValue(InFraction(p))
          D == ThirdDigit(InFraction(p))
      IN SatangIs(p, IF D >= 5 THEN V + 1 ELSE V)

\* fraction 4549 has been rounded half to 45 satang, and 4559 to 46
RoundHalfReached ==
  \E p \in Procs :
    /\ LongFractionIn(p, RoundHalf)
    /\ \/ InFraction(p) = "4549" /\ frame[p].decimalPart = "45"
       \/ InFraction(p) = "4559" /\ frame[p].decimalPart = "46"

\* C8: in mode RoundUp a fraction of more than two digits gives satang V + 1 when its
\* third digit is above 0 and V when it is 0 (carry or clamp at V = 99 only),
\* whatever digits follow the third
RoundUpByThirdDigit ==
  \A p \in Procs :
    LongFractionIn(p, RoundUp) =>
      LET V == LeadingValue(InFraction(p))
          D == ThirdDigit(InFraction(p))
      IN SatangIs(p, IF D > 0 THEN V + 1 ELSE V)

\* fraction 451 has been rounded up to 46 satang
RoundUpReached ==
  \E p \in Procs :
    /\ LongFractionIn(p, RoundUp)
    /\ InFraction(p) = "451" /\ frame[p].decimalPart = "46"
    /\ ret[p].text = "NuengRoiBahtSiSipHokSatang"

\* C9: in mode RoundDown the satang is the first two fraction digits (padded with 0)
\* for a fraction of any length and either policy, the integer part is not
\* incremented and no clamp warning is emitted
RoundDownTruncates ==
  \A p \in Procs :
    (Returned(p) /\ HasFraction(p) /\ DigitsOnly(p) /\ frame[p].mode = RoundDown)
      => /\ frame[p].decimalPart = SubSeq(InFraction(p) \o "00", 1, 2)
         /\ OutInteger(p) = InInteger(p)
         /\ ~frame[p].overflow
         /\ ~ret[p].warned

\* fraction 9999 has been truncated to 99 satang with overflow allowed
RoundDownReached ==
  \E p \in Procs :
    /\ Returned(p) /\ frame[p].mode = RoundDown /\ Policy(p)
    /\ HasFraction(p) /\ InFraction(p) = "9999"
    /\ ret[p].text = "NuengRoiBahtKaoSipKaoSatang"

\* C10: a returned text is I + Baht + T, with I the integer text (Sun when it is
\* empty) and T = Thuan exactly when there is no fraction or the rounded satang is
\* "00", else the fraction text + Satang; for digits-only input with non-zero satang
\* the fraction text is not empty, so "SunSatang" does not appear
ResultForm ==
  \A p \in Procs :
    Returned(p) =>
      LET I == IF frame[p].bahtText = "" THEN Sun ELSE frame[p].bahtText
          text == ret[p].text
          T == From(text, Len(I) + Len(Baht) + 1)
          whole == ~HasFraction(p) \/ frame[p].decimalPart = "00"
      IN /\ SubSeq(text, 1, Len(I) + Len(Baht)) = I \o Baht
         /\ whole <=> T = Thuan
         /\ ~whole =>
              /\ Len(T) >= Len(Satang)
              /\ From(T, Len(T) - Len(Satang) + 1) = Satang
              /\ SubSeq(T, 1, Len(T) - Len(Satang))
                   \in {convertDecimalPart(frame[p].decimalPart), Sun}
              /\ DigitsOnly(p) => T \notin {Satang, Sun \o Satang}

\* zero baht and one satang has been returned, and so has a whole amount from a
\* fraction of zeros
ResultFormReached ==
  \E p \in Procs :
    /\ Returned(p)
    /\ \/ call[p].amount.v = "0.01" /\ ret[p].text = "SunBahtNuengSatang"
       \/ call[p].amount.v = "100.00" /\ ret[p].text = "NuengRoiBahtThuan"

\* a non-empty string of zeros
AllZeros(s) == s # "" /\ \A i \in 1..Len(s) : CharAt(s, i) = "0"

\* C11: an integer part that is all zeros, of any length (1 digit, 6, or more than 6),
\* has the empty integer text, and the returned text starts with Sun \o Baht
ZeroIntegerReadsSun ==
  \A p \in Procs :
    (Returned(p) /\ AllZeros(OutInteger(p)))
      => /\ frame[p].bahtText = ""
         /\ SubSeq(ret[p].text, 1, Len(Sun) + Len(Baht)) = Sun \o Baht

\* seven zeros have been read as zero baht, and so have thirteen zeros with satang
ZeroIntegerReached ==
  \E p \in Procs :
    /\ Returned(p)
    /\ \/ OutInteger(p) = "0000000" /\ ret[p].text = "SunBahtThuan"
       \/ OutInteger(p) = "0000000000000" /\ ret[p].text = "SunBahtKaoSipKaoSatang"

\* the word of the non-zero digit d at position p from the right of a group of n digits
WordAt(d, p, n) ==
  IF p = 0 THEN (IF d = 1 /\ n > 1 THEN Et ELSE digitNames(d))
  ELSE IF p = 1
  THEN (IF d = 1 THEN unitNames(1)
        ELSE IF d = 2 THEN Yi \o unitNames(1)
        ELSE digitNames(d) \o unitNames(1))
  ELSE digitNames(d) \o unitNames(p)

RECURSIVE GroupReading(_, _)
\* the words of the non-zero digits of the group g from its i-th character on, most
\* significant first
GroupReading(g, i) ==
  IF i > Len(g) THEN ""
  ELSE (IF CharAt(g, i) = "0" THEN ""
        ELSE WordAt(DigitVal(CharAt(g, i)), Len(g) - i, Len(g)))
       \o GroupReading(g, i + 1)

\* C12: a group of 1 to 6 digits reads as the words of its non-zero digits, most
\* significant first: Et for a final 1 of a group of several digits, the unit alone
\* for 1 in the tens, Yi for 2 in the tens, digit word and unit word elsewhere; a
\* group of zeros reads as the empty string
GroupReadsDigitByDigit ==
  \A p \in Procs :
    (Returned(p) /\ OutInteger(p) # "" /\ AllDigits(OutInteger(p)) /\ Len(OutInteger(p)) <= 6)
      => frame[p].bahtText = GroupReading(OutInteger(p), 1)

\* 117021 has been read, and so have the single digit 1 and 000011
GroupReadingReached ==
  \E p \in Procs :
    /\ Returned(p)
    /\ \/ OutInteger(p) = "117021" /\ frame[p].bahtText = "NuengSaenNuengMuenChetPhanYiSipEt"
       \/ OutInteger(p) = "1" /\ frame[p].bahtText = "Nueng"
       \/ OutInteger(p) = "000011" /\ frame[p].bahtText = "SipEt"

\* the fraction text of the satang value v, 1..99, by the satang rules
SatangReading(v) ==
  IF v = 1 THEN digitNames(1)
  ELSE IF v = 11 THEN unitNames(1) \o Et
  ELSE IF v \in 12..19 THEN unitNames(1) \o digitNames(v - 10)
  ELSE IF v >= 21 /\ v % 10 = 1
  THEN (IF v \div 10 = 2 THEN Yi ELSE digitNames(v \div 10)) \o unitNames(1) \o Et
  ELSE GroupReading(TwoDigits(v), 1)

\* C13: a returned text whose rounded satang is 01..99 ends, after Baht, with the
\* fraction text of the satang rules and Satang: Nueng for 01, SipEt for 11, Sip and
\* the ones word for 12..19, the tens word (Yi for the twenties) and SipEt for
\* 21..91, the standard reading of the two digits for every other value
SatangFollowsRules ==
  \A p \in Procs :
    (Returned(p) /\ DigitsOnly(p) /\ HasFraction(p) /\ frame[p].decimalPart # "00")
      => LET I == IF frame[p].bahtText = "" THEN Sun ELSE frame[p].bahtText
         IN /\ Len(frame[p].decimalPart) = 2
            /\ ret[p].text
                 = I \o Baht \o SatangReading(LeadingValue(frame[p].decimalPart)) \o Satang

\* one satang has been read as Nueng, 21 as YiSipEt and 91 as KaoSipEt
SatangRulesReached ==
  \E p \in Procs :
    /\ Returned(p)
    /\ \/ frame[p].decimalPart = "01" /\ ret[p].text = "SunBahtNuengSatang"
       \/ frame[p].decimalPart = "21" /\ ret[p].text = "SunBahtYiSipEtSatang"
       \/ frame[p].decimalPart = "91" /\ ret[p].text = "SunBahtKaoSipEtSatang"

\* a string without the separators the sanitiser removes
Unformatted(s) == ReplaceAll(ReplaceAll(ReplaceAll(ReplaceAll(s, ","), "_"), " "), "\t")

\* digits, or digits "." digits
PlainNumber(s) ==
  LET ps == Split(s, ".")
  IN /\ Len(ps) <= 2
     /\ ps[1] # "" /\ AllDigits(ps[1])
     /\ Len(ps) = 2 => AllDigits(ps[2])

\* a finished call whose amount is a string that is, separators apart, a plain number
PlainCall(p) ==
  pc[p] = "done" /\ call[p].amount.type = "string" /\ PlainNumber(Unformatted(call[p].amount.v))

\* the integer part of a plain call's amount without separators and leading zeros
PlainInteger(p) == Canon(Split(Unformatted(call[p].amount.v), ".")[1])

Refusable(s) ==
  LET u == Unformatted(s)
      body == IF HasPrefix(u, "-") \/ HasPrefix(u, "+") THEN From(u, 2) ELSE u
  IN \/ TrimSpace(s) = ""
     \/ Count(s, ".") > 1
     \/ \E i \in 1..Len(body) : CharAt(body, i) \notin DigitChars \cup {"."}

\* C15: a string that is empty after trimming, has more than one decimal point, or has
\* a character other than digits, one decimal point, separators and one leading sign,
\* is refused with ErrorCodeInvalidInput and no text
InvalidInputIsRefused ==
  \A p \in Procs :
    (pc[p] = "done" /\ call[p].amount.type = "string" /\ Refusable(call[p].amount.v))
      => ret[p].err = ErrInvalidInput /\ ret[p].text = ""

\* a letter, two decimal points and a blank string have been refused
InvalidInputReached ==
  \E p \in Procs :
    /\ pc[p] = "done" /\ ret[p].err = ErrInvalidInput /\ ret[p].text = ""
    /\ call[p].amount.v \in {"1a", "1..", "  "}

\* a sign after the first digit has been converted to text
SignInsideConverted ==
  \E p \in Procs :
    /\ pc[p] = "done" /\ call[p].amount.v = "1-1"
    /\ ret[p].err = ErrNil /\ ret[p].text = "SunBahtThuan"

\* a number written without its integer part or without its fraction, in full
InFull(s) ==
  LET dotted == IF HasPrefix(s, ".") THEN "0" \o s ELSE s
  IN IF HasSuffix(dotted, ".") THEN dotted \o "0" ELSE dotted

\* the text and the error of a result
Outcome(r) == [r EXCEPT !.warned = FALSE]

\* a finished call whose amount is, separators apart, a plain number or one with its
\* integer part or its fraction left out, and is not written plainly and in full
FormattedCall(p) ==
  /\ pc[p] = "done" /\ call[p].amount.type = "string"
  /\ Unformatted(call[p].amount.v) # "."
  /\ InFull(Unformatted(call[p].amount.v)) # call[p].amount.v
  /\ PlainNumber(InFull(Unformatted(call[p].amount.v)))

SignedCall(p) ==
  /\ pc[p] = "done" /\ call[p].amount.type = "string"
  /\ HasPrefix(call[p].amount.v, "-") \/ HasPrefix(call[p].amount.v, "+")
  /\ PlainNumber(From(call[p].amount.v, 2))

\* a finished call whose amount is a negative integer
NegativeCall(p) == pc[p] = "done" /\ call[p].amount.type = "int" /\ call[p].amount.n < 0

\* C17: a plain number with "-" or "+" before it gives the text and the error of the
\* number without the sign, and a negative integer those of its absolute value
SignChangesNothing ==
  \A p \in Procs :
    /\ SignedCall(p) =>
         Outcome(ret[p]) = Outcome(convertWithMode(String(From(call[p].amount.v, 2)),
                                                   frame[p].mode, Policy(p), EnableWarningLogs))
    /\ NegativeCall(p) =>
         Outcome(ret[p]) = Outcome(convertWithMode([call[p].amount EXCEPT !.n = 0 - @],
                                                   frame[p].mode, Policy(p), EnableWarningLogs))

\* -100.995 has been converted like 100.995, and the integer -21 like 21
SignedReached ==
  \E p \in Procs :
    \/ /\ SignedCall(p) /\ call[p].amount.v = "-100.995"
       /\ ret[p].text \in {"NuengRoiBahtKaoSipKaoSatang", "NuengRoiEtBahtThuan"}
    \/ /\ NegativeCall(p) /\ call[p].amount.n = 0 - 21
       /\ ret[p].text = "YiSipEtBahtThuan"

\* the word w occurs in the text s
Contains(s, w) == \E i \in 1..(Len(s) - Len(w) + 1) : SubSeq(s, i, i + Len(w) - 1) = w

\* C18: a call of Convert or of Converter.Convert that returns an error (unsupported
\* type, invalid string, integer part above the maximum) returns the empty text, and
\* one that returns no error returns a non-empty text that contains Baht
ErrorMeansNoText ==
  \A p \in Procs :
    pc[p] = "done" =>
      IF ret[p].err # ErrNil
      THEN ret[p].text = ""
      ELSE ret[p].text # "" /\ Contains(ret[p].text, Baht)

\* a Converter has refused a number above the maximum, an unsupported type and an
\* invalid string, each with no text
ErrorReached ==
  \E p \in Procs :
    /\ pc[p] = "done" /\ call[p].kind = "Converter" /\ ret[p].text = ""
    /\ \/ call[p].amount.v = "9223372036854775808" /\ ret[p].err = ErrExceedsMaxValue
       \/ call[p].amount.type = "slice" /\ ret[p].err = ErrUnsupportedType
       \/ call[p].amount.v = "1a" /\ ret[p].err = ErrInvalidInput

\* the mode a call is to round with: the one passed, else RoundHalf for the
\* package-level Convert and the Config's DefaultRounding for a Converter
ExpectedMode(p) ==
  IF call[p].roundingMode # <<>> THEN call[p].roundingMode[1]
  ELSE IF call[p].kind = "Convert" THEN RoundHalf
  ELSE call[p].config.DefaultRounding

\* C19: a call returns what its amount gives under the mode passed to it, or, with
\* no mode passed, under RoundHalf (Convert) or the Config's DefaultRounding
\* (Converter.Convert): Convert(x) is Convert(x, RoundHalf), and a mode passed
\* overrides DefaultRounding
ModeIsArgumentOrDefault ==
  \A p \in Procs :
    pc[p] = "done" =>
      Outcome(ret[p]) = Outcome(convertWithMode(call[p].amount, ExpectedMode(p), Policy(p),
                                                EnableWarningLogs))

\* a Converter of DefaultRounding RoundDown has rounded 0.455 down by default and
\* half up on request
ModeChosenReached ==
  \E p \in Procs :
    /\ pc[p] = "done" /\ call[p].amount.v = "0.455"
    /\ call[p].kind = "Converter" /\ call[p].config.DefaultRounding = RoundDown
    /\ \/ call[p].roundingMode = <<>> /\ ret[p].text = "SunBahtSiSipHaSatang"
       \/ call[p].roundingMode = <<RoundHalf>> /\ ret[p].text = "SunBahtSiSipHokSatang"

\* a finished package-level Convert with the amount and the rounding mode of the
\* earlier call that is remembered
CalledAgain(p) ==
  /\ pc[p] = "done" /\ call[p].kind = "Convert" /\ earlier.set
  /\ call[p].amount = earlier.amount
  /\ call[p].roundingMode = earlier.roundingMode

\* C20: a package-level Convert with the amount and the rounding mode of an earlier
\* one returns the text and the error the earlier one returned, whatever calls of
\* SetAllowOverflow, SetWarningLogs and Converter.Convert were made in between
SameCallSameResult ==
  \A p \in Procs :
    CalledAgain(p) => ret[p].text = earlier.text /\ ret[p].err = earlier.err

\* 100.995 has been converted a second time, with the result of the first time
CalledAgainReached ==
  \E p \in Procs :
    /\ CalledAgain(p) /\ call[p].amount.v = "100.995"
    /\ ret[p].text = earlier.text /\ ret[p].text = "NuengRoiBahtKaoSipKaoSatang"

\* the warning setting of a call made by a single caller: the Config's of a Converter,
\* the package global for the package-level Convert
Warnings(p) ==
  IF call[p].kind = "Converter" THEN call[p].config.EnableWarningLogs ELSE EnableWarningLogs

\* the call's rounding would take 99 satang to 100 and overflow is disallowed
Clamps(p) == Returned(p) /\ DigitsOnly(p) /\ RoundsPast99(p) /\ ~Policy(p)

\* C21: a finished call has logged the warning exactly when overflow is disallowed,
\* its rounding (RoundHalf or RoundUp) takes 99 satang to 100 and the warning logs
\* are enabled; with or without the warning the call succeeds with the integer part
\* unchanged and 99 satang
ClampIsReportedExactly ==
  \A p \in Procs :
    pc[p] = "done" =>
      /\ ret[p].warned <=> (Clamps(p) /\ Warnings(p))
      /\ Clamps(p) =>
           ret[p].text = (IF convertIntegerNumber(InInteger(p)) = "" THEN Sun
                          ELSE convertIntegerNumber(InInteger(p)))
                         \o Baht \o "KaoSipKao" \o Satang

\* 100.995 has been clamped with a warning, and a Converter without warning logs has
\* clamped it silently
ClampReportReached ==
  \E p \in Procs :
    /\ Clamps(p) /\ call[p].amount.v = "100.995"
    /\ ret[p].text = "NuengRoiBahtKaoSipKaoSatang"
    /\ \/ call[p].kind = "Convert" /\ ret[p].warned
       \/ call[p].kind = "Converter" /\ ~call[p].config.EnableWarningLogs /\ ~ret[p].warned

\* a returned call with a digits-only fraction of at most two digits
ShortFractionCall(p) ==
  Returned(p) /\ HasFraction(p) /\ DigitsOnly(p) /\ Len(InFraction(p)) <= 2

\* C22: a fraction of 0, 1 or 2 digits is taken exactly ("00", the digit and "0", the
\* two digits), the integer part is not incremented, and the text is that of the
\* integer part and this satang in every rounding mode and under both overflow
\* policies
ShortFractionIsExact ==
  \A p \in Procs :
    ShortFractionCall(p) =>
      LET exact == SubSeq(InFraction(p) \o "00", 1, 2)
      IN /\ frame[p].decimalPart = exact
         /\ ~frame[p].overflow
         /\ OutInteger(p) = InInteger(p)
         /\ ~ret[p].warned
         /\ ret[p].text = Assembled(InInteger(p), exact)

\* 100.9 has been read as 90 satang in mode RoundUp with overflow allowed, and a
\* fraction of no digits as a whole amount
ShortFractionReached ==
  \E p \in Procs :
    /\ ShortFractionCall(p)
    /\ \/ /\ InFraction(p) = "9" /\ frame[p].mode = RoundUp /\ Policy(p)
          /\ ret[p].text = "NuengRoiBahtKaoSipSatang"
       \/ /\ InFraction(p) = "" /\ ret[p].text = "SongBahtThuan"

\* the call's rounding takes 99 satang to 100
AtBoundary(p) == Returned(p) /\ DigitsOnly(p) /\ RoundsPast99(p)

\* C23: a finished call whose rounding does not take 99 satang to 100 returns the
\* text and the error that the same amount and mode give under the other overflow
\* policy
PolicyMattersAtBoundaryOnly ==
  \A p \in Procs :
    (pc[p] = "done" /\ ~AtBoundary(p))
      => Outcome(ret[p]) = Outcome(convertWithMode(call[p].amount, frame[p].mode,
                                                   ~Policy(p), EnableWarningLogs))

\* 0.455 has been rounded half up to 46 satang with overflow allowed, and 100.994
\* rounded half to 99 satang
AwayFromBoundaryReached ==
  \E p \in Procs :
    /\ Returned(p) /\ ~AtBoundary(p) /\ Policy(p) /\ HasFraction(p)
    /\ \/ call[p].amount.v = "0.455" /\ ret[p].text = "SunBahtSiSipHokSatang"
       \/ call[p].amount.v = "100.994" /\ frame[p].mode = RoundHalf
          /\ ret[p].text = "NuengRoiBahtKaoSipKaoSatang"

\* a rounding result of two digits that carries only with "00" and only when
\* overflow is allowed
SatangShape(r, allowOverflow) ==
  /\ Len(r.satang) = 2 /\ AllDigits(r.satang)
  /\ r.overflow => (r.satang = "00" /\ allowOverflow)

\* C28: for the digits-only fraction of a returned call, formatDecimalPartWithRounding
\* gives in every rounding mode and under both overflow policies two digits, and a
\* carry only with "00" and only when overflow is allowed; the call itself holds
\* such a satang and such a carry
SatangIsTwoDigits ==
  \A p \in Procs :
    (Returned(p) /\ HasFraction(p) /\ DigitsOnly(p)) =>
      /\ \A m \in Modes, ao \in BOOLEAN :
           SatangShape(formatDecimalPartWithRounding(InFraction(p), m, ao), ao)
      /\ Len(frame[p].decimalPart) = 2 /\ AllDigits(frame[p].decimalPart)
      /\ frame[p].overflow => (frame[p].decimalPart = "00" /\ Policy(p))

\* the fraction 019 has been rounded up to "02", or 995 has carried into the baht
\* as "00"
SatangShapeReached ==
  \E p \in Procs :
    /\ Returned(p) /\ HasFraction(p) /\ DigitsOnly(p)
    /\ \/ InFraction(p) = "019" /\ frame[p].mode = RoundUp /\ frame[p].decimalPart = "02"
       \/ InFraction(p) = "995" /\ frame[p].overflow /\ frame[p].decimalPart = "00"

\* the text s ends with the text t
EndsWith(s, t) == Len(s) >= Len(t) /\ SubSeq(s, Len(s) - Len(t) + 1, Len(s)) = t

\* C29: the satang of a returned call, a two-digit string, is read by
\* convertDecimalPart exactly as convertIntegerNumber reads the same string, unless
\* it is "01", which convertDecimalPart reads Nueng and convertIntegerNumber Et; a
\* satang other than "00" is the reading that ends the text
SatangReadsLikeIntegerBut01 ==
  \A p \in Procs :
    (Returned(p) /\ HasFraction(p) /\ DigitsOnly(p)) =>
      LET d == frame[p].decimalPart
      IN /\ Len(d) = 2
         /\ d # "01" => convertDecimalPart(d) = convertIntegerNumber(d)
         /\ d = "01" => (convertDecimalPart(d) = "Nueng" /\ convertIntegerNumber(d) = "Et")
         /\ d # "00" => EndsWith(ret[p].text, Baht \o convertDecimalPart(d) \o Satang)

\* 0.01 has been read Nueng satang, or 0.21 YiSipEt satang
SatangLikeIntegerReached ==
  \E p \in Procs :
    /\ Returned(p) /\ HasFraction(p) /\ DigitsOnly(p)
    /\ \/ frame[p].decimalPart = "01" /\ ret[p].text = "SunBahtNuengSatang"
       \/ frame[p].decimalPart = "21" /\ ret[p].text = "SunBahtYiSipEtSatang"

\* the amount in satang that the text built from an integer part and a satang names:
\* an integer part that convertIntegerNumber rejects is written Sun, zero baht
SatangAmount(integerPart, decimalPart) ==
  IF isValidNumber(integerPart) THEN Canon(integerPart \o decimalPart)
  ELSE Canon(decimalPart)

\* the amount in satang of the result for an integer part and a fraction in a
\* rounding mode under an overflow policy
ResultAmount(integerPart, fraction, mode, allowOverflow) ==
  LET r == formatDecimalPartWithRounding(fraction, mode, allowOverflow)
      c == Carry(integerPart, r.satang, r.overflow)
  IN SatangAmount(c.integerPart, c.decimalPart)

\* a <= b for two magnitudes
DecLeq(a, b) == a = b \/ DecLess(a, b)

\* the amounts of the three rounding modes are ordered and at most one satang apart
Ordered(integerPart, fraction, allowOverflow) ==
  LET down == ResultAmount(integerPart, fraction, RoundDown, allowOverflow)
      half == ResultAmount(integerPart, fraction, RoundHalf, allowOverflow)
      up == ResultAmount(integerPart, fraction, RoundUp, allowOverflow)
  IN /\ DecLeq(down, half) /\ DecLeq(half, up)
     /\ up = down \/ up = DecInc(down)

\* C30: for the integer part and the digits-only fraction of a returned call, under
\* the call's overflow policy, the amount in satang of the result is the one
\* computed for the call's mode, and the amounts of the three modes satisfy
\* RoundDown <= RoundHalf <= RoundUp <= RoundDown + 1
RoundingModesOrdered ==
  \A p \in Procs :
    (Returned(p) /\ HasFraction(p) /\ DigitsOnly(p)) =>
      /\ SatangAmount(frame[p].integerPart, frame[p].decimalPart)
           = ResultAmount(InInteger(p), InFraction(p), frame[p].mode, Policy(p))
      /\ Ordered(InInteger(p), InFraction(p), Policy(p))

\* below the top of int64 the modes are ordered: the failure is at the top alone
RoundingModesOrderedBelowMax ==
  \A p \in Procs :
    (Returned(p) /\ HasFraction(p) /\ DigitsOnly(p) /\ Canon(InInteger(p)) # MaxInt64) =>
      /\ SatangAmount(frame[p].integerPart, frame[p].decimalPart)
           = ResultAmount(InInteger(p), InFraction(p), frame[p].mode, Policy(p))
      /\ Ordered(InInteger(p), InFraction(p), Policy(p))

\* 9223372036854775807.995 has been rounded up with overflow allowed and reads zero
\* baht, below what RoundDown gives for it
RoundUpBelowRoundDownReached ==
  \E p \in Procs :
    /\ Returned(p) /\ HasFraction(p) /\ Policy(p) /\ frame[p].mode = RoundUp
    /\ InInteger(p) = MaxInt64 /\ InFraction(p) = "995"
    /\ ret[p].text = Sun \o Baht \o Thuan
    /\ DecLess(ResultAmount(InInteger(p), InFraction(p), RoundUp, TRUE),
               ResultAmount(InInteger(p), InFraction(p), RoundDown, TRUE))

\* a finished call whose amount is a plain number written with leading zeros
LeadingZerosCall(p) ==
  /\ pc[p] = "done" /\ call[p].amount.type = "string"
  /\ PlainNumber(call[p].amount.v)
  /\ Canon(Split(call[p].amount.v, ".")[1]) # Split(call[p].amount.v, ".")[1]

\* the amount of a plain call without the leading zeros of its integer part
WithoutLeadingZeros(s) ==
  LET ps == Split(s, ".")
  IN Canon(ps[1]) \o (IF Len(ps) = 2 THEN "." \o ps[2] ELSE "")

\* C25: a plain number written with leading zeros gives the text and the error of
\* the number written without them
LeadingZerosChangeNothing ==
  \A p \in Procs :
    LeadingZerosCall(p) =>
      Outcome(ret[p]) = Outcome(convertWithMode(String(WithoutLeadingZeros(call[p].amount.v)),
                                                frame[p].mode, Policy(p), EnableWarningLogs))

\* leading zeros change nothing when the first digit after them is not a one
LeadingZerosChangeNothingButForOne ==
  \A p \in Procs :
    (LeadingZerosCall(p) /\ ~HasPrefix(Canon(Split(call[p].amount.v, ".")[1]), "1")) =>
      Outcome(ret[p]) = Outcome(convertWithMode(String(WithoutLeadingZeros(call[p].amount.v)),
                                                frame[p].mode, Policy(p), EnableWarningLogs))

\* "01" has been read Et baht, where "1" reads Nueng baht
LeadingZeroOneReached ==
  \E p \in Procs :
    /\ LeadingZerosCall(p) /\ call[p].amount.v = "01"
    /\ ret[p].err = ErrNil /\ ret[p].text = "EtBahtThuan"
    /\ convertWithMode(String("1"), frame[p].mode, Policy(p), EnableWarningLogs).text
         = "NuengBahtThuan"

\* an accepted integer amount written without a fraction and without leading zeros
WholeNumber(amount, err) ==
  /\ amount.type = "string" /\ err = ErrNil
  /\ amount.v # "" /\ AllDigits(amount.v) /\ Canon(amount.v) = amount.v

\* a finished package-level Convert of a whole number, after an earlier one of a
\* different whole number
TwoWholeNumbers(p) ==
  /\ pc[p] = "done" /\ call[p].kind = "Convert" /\ earlier.set
  /\ WholeNumber(call[p].amount, ret[p].err)
  /\ WholeNumber(earlier.amount, earlier.err)
  /\ call[p].amount.v # earlier.amount.v

\* C24: two accepted integer amounts without leading zeros that are different
\* numbers are returned as different texts
IntegerTextIsInjective ==
  \A p \in Procs : TwoWholeNumbers(p) => ret[p].text # earlier.text

\* 1000000000001 has been read like 1000001 before it
SameTextForTwoNumbersReached ==
  \E p \in Procs :
    /\ TwoWholeNumbers(p)
    /\ earlier.amount.v = "1000001" /\ call[p].amount.v = "1000000000001"
    /\ earlier.text = "NuengLanEtBahtThuan" /\ ret[p].text = "NuengLanEtBahtThuan"

\* C26: when every started call has returned, EnableWarningLogs and AllowOverflow
\* hold the values found when the first of the calls started
GlobalsLeftAsFound == Quiet => Globals = found

\* two overlapping Converter.Convert calls have returned and AllowOverflow is not
\* the value found before the first of them
GlobalsLeftChangedReached ==
  /\ Quiet
  /\ AllowOverflow # found.AllowOverflow

\* a finished call on the Converter that is kept
KeptCall(p) == sched = "kept" /\ pc[p] = "done" /\ converter.built /\ call[p].kind = "Converter"

\* what a Converter of the Config returns for the arguments
ConverterResult(config, amount, roundingMode) ==
  Outcome(convertWithMode(amount, ModeOf(config.DefaultRounding, roundingMode),
                          config.AllowOverflow, config.EnableWarningLogs))

\* C27: a call on a Converter returns the text and the error that the Config as it
\* was when NewConverter returned determines, whatever the caller has assigned to
\* the Config's fields since; a Converter made from nil returns those of
\* DefaultConfig()
ConfigFixedAtConstruction ==
  \A p \in Procs :
    KeptCall(p) =>
      /\ Outcome(ret[p]) = ConverterResult(converter.made, call[p].amount, call[p].roundingMode)
      /\ ~converter.shared => converter.made = DefaultConfig

\* a Converter made from nil returns what DefaultConfig() determines
NilConverterIsDefault ==
  \A p \in Procs :
    (KeptCall(p) /\ ~converter.shared)
      => Outcome(ret[p]) = ConverterResult(DefaultConfig, call[p].amount, call[p].roundingMode)

\* a Converter made with AllowOverflow false has carried 100.995 to 101 baht after
\* the caller set AllowOverflow in its Config
ChangedConfigUsedReached ==
  \E p \in Procs :
    /\ KeptCall(p) /\ converter.shared
    /\ ~converter.made.AllowOverflow /\ converter.config.AllowOverflow
    /\ call[p].amount.v = "100.995" /\ call[p].roundingMode = <<>>
    /\ converter.made.DefaultRounding = RoundHalf
    /\ ret[p].text = "NuengRoiEtBahtThuan"

====
